---------------------------- MODULE Spec2Model ----------------------------
(***************************************************************************)
(* Model of alchemy_framework/src/gpu.rs: the graphics context `State`     *)
(* (surface, device, queue, swap-chain descriptor, swap chain, depth       *)
(* texture, optional effect) and the single fixed pipeline `BasicEffect`.  *)
(*                                                                         *)
(* Every method of State and BasicEffect is one action.  The wgpu backend  *)
(* is modelled by what the code asks of it: the queue is the sequence of   *)
(* submitted command buffers, GPU buffers are byte sequences, and the      *)
(* outcome of SwapChain::get_current_frame is an input of render.          *)
(* A panic (Option::unwrap on None, panic!) ends the process: `alive`      *)
(* becomes FALSE and no further operation runs.                            *)
(* Floating-point clear values are written in tenths (0.1 is 1, 1.0 is 10).*)
(***************************************************************************)
EXTENDS Integers, Sequences, FiniteSets, TLC

\* ------------------------------------------------------------------ bounds
MaxDim == 3          \* window widths and heights range over 1..MaxDim
MaxEffects == 2      \* number of BasicEffect values the caller may build
MaxSubmits == 2      \* number of command buffers the queue may hold
BufLen == 2          \* size in bytes of every GPU buffer

\* --------------------------------------------------------------- constants
RENDERFORMAT == "Bgra8UnormSrgb"
SCUSAGE == "RENDER_ATTACHMENT"
SCPRESENT == "Fifo"

Dims == 1..MaxDim
PhysicalSize == [width : Dims, height : Dims]

\* wgpu::SwapChainError, the failures of get_current_frame
SwapChainError == {"Timeout", "Outdated", "Lost", "OutOfMemory"}
AcquireOutcome == {"Ok"} \cup SwapChainError

\* Option<T>
None == [tag |-> "None"]
Some(v) == [tag |-> "Some", v |-> v]

\* The camera collaborator's GPUObject: binding slot and backing buffer.
camera_obj == [binding |-> 0, buffer |-> "camera_buffer"]
Buffers == {"camera_buffer", "other_buffer"}

\* bytemuck::Pod values the caller uploads, and their byte representation
\* (bytemuck::cast_slice(&[v]) on a little-endian target).
PodValues == {[ty |-> "u8", v |-> 1], [ty |-> "u16", v |-> 256], [ty |-> "u16", v |-> 257]}
cast_slice(p) == IF p.ty = "u8" THEN <<p.v % 256>>
                 ELSE <<p.v % 256, (p.v \div 256) % 256>>

VARIABLES
  surface,        \* State.surface
  device,         \* State.device
  queue,          \* State.queue: command buffers submitted so far
  buffers,        \* contents of the GPU buffers written through the queue
  sc_desc,        \* State.sc_desc
  swap_chain,     \* State.swap_chain
  size,           \* State.size
  depth_texture,  \* State.depth_texture
  effect,         \* State.effect
  held,           \* a BasicEffect built by the caller and not yet installed
  next_id,        \* identity of the next pipeline object the device creates
  last_installed, \* argument of the most recent add_effect call
  alive,          \* FALSE once the process has panicked
  ret             \* the last call: operation, inputs, outcome, backend calls

vars == <<surface, device, queue, buffers, sc_desc, swap_chain, size,
          depth_texture, effect, held, next_id, last_installed, alive, ret>>

\* ------------------------------------------------------------ backend model
\* Device::create_swap_chain(&surface, &sc_desc)
create_swap_chain(surf, desc) == [surface |-> surf, desc |-> desc]

\* texture::Texture::create_depth_texture(&device, &sc_desc, label):
\* a depth buffer sized to the swap-chain configuration.
create_depth_texture(dev, desc, label) ==
  [width |-> desc.width, height |-> desc.height, label |-> label]

\* Queue::write_buffer(buffer, 0, data): overwrite the first Len(data) bytes
queue_write_buffer(old, data) ==
  [i \in 1..Len(old) |-> IF i <= Len(data) THEN data[i] ELSE old[i]]

Cmd(c, a, b) == [cmd |-> c, a |-> a, b |-> b]

Call(op, arg, acquired, result, err, value, calls) ==
  [op |-> op, arg |-> arg, acquired |-> acquired, result |-> result,
   err |-> err, value |-> value, calls |-> calls]

\* ------------------------------------------------------------------ State
\* State::new(window): the state after construction
new(window_size) ==
  /\ surface = "surface"
  /\ device = "Named Device"
  /\ queue = <<>>
  /\ buffers = [b \in Buffers |-> [i \in 1..BufLen |-> 0]]
  /\ size = window_size
  /\ sc_desc = [usage |-> SCUSAGE, format |-> RENDERFORMAT,
                width |-> window_size.width, height |-> window_size.height,
                present_mode |-> SCPRESENT]
  /\ swap_chain = create_swap_chain(surface, sc_desc)
  /\ depth_texture = create_depth_texture(device, sc_desc, "depth_texture")
  /\ effect = None
  /\ held = None
  /\ next_id = 1
  /\ last_installed = None
  /\ alive = TRUE
  /\ ret = Call("new", Some(window_size), "-", "unit", "-", None, <<>>)

Init == \E window_size \in PhysicalSize : new(window_size)

\* add_effect changed to fill the slot only when it is empty
add_effect_keep_first ==
  /\ alive
  /\ held # None
  /\ effect' = IF effect = None THEN Some(held.v) ELSE effect
  /\ held' = None
  /\ last_installed' = held
  /\ ret' = Call("add_effect", held, "-", "unit", "-", None, <<>>)
  /\ UNCHANGED <<surface, device, queue, buffers, sc_desc, swap_chain, size,
                 depth_texture, next_id, alive>>

\* State::add_effect(effect): the caller moves the effect it built into the slot
add_effect ==
  /\ alive
  /\ held # None
  /\ effect' = Some(held.v)
  /\ held' = None
  /\ last_installed' = held
  /\ ret' = Call("add_effect", held, "-", "unit", "-", None, <<>>)
  /\ UNCHANGED <<surface, device, queue, buffers, sc_desc, swap_chain, size,
                 depth_texture, next_id, alive>>

\* get_effect changed to hand back the empty slot instead of unwrapping it
get_effect_no_unwrap ==
  /\ alive
  /\ alive' = alive
  /\ ret' = Call("get_effect", None, "-", "value", "-", effect, <<>>)
  /\ UNCHANGED <<surface, device, queue, buffers, sc_desc, swap_chain, size,
                 depth_texture, effect, held, next_id, last_installed>>

\* State::get_effect(): self.effect.as_ref().unwrap()
get_effect ==
  /\ alive
  /\ IF effect = None
       THEN /\ alive' = FALSE
            /\ ret' = Call("get_effect", None, "-", "panic", "-", None, <<>>)
       ELSE /\ alive' = alive
            /\ ret' = Call("get_effect", None, "-", "value", "-", effect, <<>>)
  /\ UNCHANGED <<surface, device, queue, buffers, sc_desc, swap_chain, size,
                 depth_texture, effect, held, next_id, last_installed>>

\* resize changed to leave the depth texture as it was
resize_skip_depth(new_size) ==
  /\ alive
  /\ size' = new_size
  /\ sc_desc' = [sc_desc EXCEPT !.width = new_size.width,
                                !.height = new_size.height]
  /\ swap_chain' = create_swap_chain(surface, sc_desc')
  /\ depth_texture' = depth_texture
  /\ ret' = Call("resize", Some(new_size), "-", "unit", "-", None,
                 <<"create_swap_chain">>)
  /\ UNCHANGED <<surface, device, queue, buffers, effect, held, next_id,
                 last_installed, alive>>

\* resize changed to rebuild the swap chain and depth texture before the
\* descriptor is updated, so both are built from the previous dimensions
resize_stale_desc(new_size) ==
  /\ alive
  /\ size' = new_size
  /\ sc_desc' = [sc_desc EXCEPT !.width = new_size.width,
                                !.height = new_size.height]
  /\ swap_chain' = create_swap_chain(surface, sc_desc)
  /\ depth_texture' = create_depth_texture(device, sc_desc, "depth_texture")
  /\ ret' = Call("resize", Some(new_size), "-", "unit", "-", None,
                 <<"create_swap_chain", "create_depth_texture">>)
  /\ UNCHANGED <<surface, device, queue, buffers, effect, held, next_id,
                 last_installed, alive>>

\* resize changed to rebuild the whole context state, dropping the effect
resize_drop_effect(new_size) ==
  /\ alive
  /\ size' = new_size
  /\ sc_desc' = [sc_desc EXCEPT !.width = new_size.width,
                                !.height = new_size.height]
  /\ swap_chain' = create_swap_chain(surface, sc_desc')
  /\ depth_texture' = create_depth_texture(device, sc_desc', "depth_texture")
  /\ effect' = None
  /\ ret' = Call("resize", Some(new_size), "-", "unit", "-", None,
                 <<"create_swap_chain", "create_depth_texture">>)
  /\ UNCHANGED <<surface, device, queue, buffers, held, next_id,
                 last_installed, alive>>

\* State::resize(new_size)
resize(new_size) ==
  /\ alive
  /\ size' = new_size
  /\ sc_desc' = [sc_desc EXCEPT !.width = new_size.width,
                                !.height = new_size.height]
  /\ swap_chain' = create_swap_chain(surface, sc_desc')
  /\ depth_texture' = create_depth_texture(device, sc_desc', "depth_texture")
  /\ ret' = Call("resize", Some(new_size), "-", "unit", "-", None,
                 <<"create_swap_chain", "create_depth_texture">>)
  /\ UNCHANGED <<surface, device, queue, buffers, effect, held, next_id,
                 last_installed, alive>>

\* State::write_buffer(buffer, bytes)
write_buffer(buffer, bytes) ==
  /\ alive
  /\ buffers' = [buffers EXCEPT
                   ![buffer] = queue_write_buffer(@, cast_slice(bytes))]
  /\ ret' = Call("write_buffer", Some(bytes), "-", "unit", "-", None,
                 <<"write_buffer">>)
  /\ UNCHANGED <<surface, device, queue, sc_desc, swap_chain, size,
                 depth_texture, effect, held, next_id, last_installed, alive>>

\* encoder.begin_render_pass(&RenderPassDescriptor {..}) as render builds it
begin_render_pass ==
  [label |-> "Render Pass",
   color_attachment |-> "frame.view",
   color_load |-> <<"Clear", <<1, 2, 3, 10>>>>,
   color_store |-> TRUE,
   depth_attachment |-> "depth_texture.view",
   depth_load |-> <<"Clear", 10>>,
   depth_store |-> TRUE,
   stencil_ops |-> None,
   commands |-> <<>>]

\* BasicEffect::render changed to issue the draw twice
BasicEffect_render_twice(self, render_pass) ==
  [render_pass EXCEPT !.commands = @ \o
     << Cmd("set_pipeline", <<self.render_pipeline.id>>, <<>>),
        Cmd("set_bind_group", <<self.camera_obj.binding>>, <<>>),
        Cmd("draw", <<0, 3>>, <<0, 1>>),
        Cmd("draw", <<0, 3>>, <<0, 1>>) >>]

\* BasicEffect::render(&self, render_pass)
BasicEffect_render(self, render_pass) ==
  [render_pass EXCEPT !.commands = @ \o
     << Cmd("set_pipeline", <<self.render_pipeline.id>>, <<>>),
        Cmd("set_bind_group", <<self.camera_obj.binding>>, <<>>),
        Cmd("draw", <<0, 3>>, <<0, 1>>) >>]

\* the backend calls render makes once a frame has been acquired, up to and
\* including begin_render_pass
RenderPrologue == <<"get_current_frame", "create_command_encoder",
                    "begin_render_pass">>

\* render changed to rebuild the swap chain and acquire again on a failure
render_retry(acquired) ==
  /\ alive
  /\ IF acquired # "Ok"
       THEN \* the second attempt fails the same way
            /\ ret' = Call("render", None, acquired, "Err", acquired, None,
                           <<"get_current_frame", "create_swap_chain",
                             "get_current_frame">>)
            /\ UNCHANGED <<queue, alive>>
       ELSE IF effect = None
       THEN \* panic! inside the open render pass; nothing is submitted
            /\ alive' = FALSE
            /\ ret' = Call("render", None, acquired, "panic", "-", None,
                           RenderPrologue)
            /\ UNCHANGED queue
       ELSE LET render_pass == BasicEffect_render(effect.v, begin_render_pass)
            IN  /\ Len(queue) < MaxSubmits
                /\ queue' = Append(queue, <<render_pass>>)
                /\ ret' = Call("render", None, acquired, "Ok", "-", None,
                       RenderPrologue
                       \o [i \in 1..Len(render_pass.commands) |->
                             render_pass.commands[i].cmd]
                       \o <<"end_render_pass", "finish", "submit">>)
                /\ UNCHANGED alive
  /\ UNCHANGED <<surface, device, buffers, sc_desc, swap_chain, size,
                 depth_texture, effect, held, next_id, last_installed>>

\* render changed to take the effect out of its slot while drawing
render_take_effect(acquired) ==
  /\ alive
  /\ IF acquired # "Ok"
       THEN \* `?` returns the SwapChainError to the caller
            /\ ret' = Call("render", None, acquired, "Err", acquired, None,
                           <<"get_current_frame">>)
            /\ UNCHANGED <<queue, alive>>
       ELSE IF effect = None
       THEN \* panic! inside the open render pass; nothing is submitted
            /\ alive' = FALSE
            /\ ret' = Call("render", None, acquired, "panic", "-", None,
                           RenderPrologue)
            /\ UNCHANGED queue
       ELSE LET render_pass == BasicEffect_render(effect.v, begin_render_pass)
            IN  /\ Len(queue) < MaxSubmits
                /\ queue' = Append(queue, <<render_pass>>)
                /\ ret' = Call("render", None, acquired, "Ok", "-", None,
                       RenderPrologue
                       \o [i \in 1..Len(render_pass.commands) |->
                             render_pass.commands[i].cmd]
                       \o <<"end_render_pass", "finish", "submit">>)
                /\ UNCHANGED alive
  /\ effect' = IF acquired = "Ok" THEN None ELSE effect
  /\ UNCHANGED <<surface, device, buffers, sc_desc, swap_chain, size,
                 depth_texture, held, next_id, last_installed>>

\* render changed to draw nothing, instead of panicking, without an effect
render_skip_none(acquired) ==
  /\ alive
  /\ IF acquired # "Ok"
       THEN \* `?` returns the SwapChainError to the caller
            /\ ret' = Call("render", None, acquired, "Err", acquired, None,
                           <<"get_current_frame">>)
            /\ UNCHANGED <<queue, alive>>
       ELSE IF effect = None
       THEN \* the pass is left empty and submitted
            /\ Len(queue) < MaxSubmits
            /\ queue' = Append(queue, <<begin_render_pass>>)
            /\ ret' = Call("render", None, acquired, "Ok", "-", None,
                           RenderPrologue
                           \o <<"end_render_pass", "finish", "submit">>)
            /\ UNCHANGED alive
       ELSE LET render_pass == BasicEffect_render(effect.v, begin_render_pass)
            IN  /\ Len(queue) < MaxSubmits
                /\ queue' = Append(queue, <<render_pass>>)
                /\ ret' = Call("render", None, acquired, "Ok", "-", None,
                       RenderPrologue
                       \o [i \in 1..Len(render_pass.commands) |->
                             render_pass.commands[i].cmd]
                       \o <<"end_render_pass", "finish", "submit">>)
                /\ UNCHANGED alive
  /\ UNCHANGED <<surface, device, buffers, sc_desc, swap_chain, size,
                 depth_texture, effect, held, next_id, last_installed>>

\* State::render(); `acquired` is what get_current_frame answers
render(acquired) ==
  /\ alive
  /\ IF acquired # "Ok"
       THEN \* `?` returns the SwapChainError to the caller
            /\ ret' = Call("render", None, acquired, "Err", acquired, None,
                           <<"get_current_frame">>)
            /\ UNCHANGED <<queue, alive>>
       ELSE IF effect = None
       THEN \* panic! inside the open render pass; nothing is submitted
            /\ alive' = FALSE
            /\ ret' = Call("render", None, acquired, "panic", "-", None,
                           RenderPrologue)
            /\ UNCHANGED queue
       ELSE LET render_pass == BasicEffect_render(effect.v, begin_render_pass)
            IN  /\ Len(queue) < MaxSubmits
                /\ queue' = Append(queue, <<render_pass>>)
                /\ ret' = Call("render", None, acquired, "Ok", "-", None,
                       RenderPrologue
                       \o [i \in 1..Len(render_pass.commands) |->
                             render_pass.commands[i].cmd]
                       \o <<"end_render_pass", "finish", "submit">>)
                /\ UNCHANGED alive
  /\ UNCHANGED <<surface, device, buffers, sc_desc, swap_chain, size,
                 depth_texture, effect, held, next_id, last_installed>>

\* ------------------------------------------------------------ BasicEffect
\* BasicEffect::new changed to name a colour-target format of its own
BasicEffect_new_own_format(gpu_sc_desc, id, cam) ==
  [render_pipeline |-> [id |-> id, format |-> "Rgba8UnormSrgb"],
   camera_obj |-> cam]

\* BasicEffect::new(gpu, camera_obj): the pipeline's colour target takes the
\* format of gpu.sc_desc at this moment
BasicEffect_new(gpu_sc_desc, id, cam) ==
  [render_pipeline |-> [id |-> id, format |-> gpu_sc_desc.format],
   camera_obj |-> cam]

\* the caller builds an effect against the context
new_effect ==
  /\ alive
  /\ next_id <= MaxEffects
  /\ held' = Some(BasicEffect_new(sc_desc, next_id, camera_obj))
  /\ next_id' = next_id + 1
  /\ ret' = Call("BasicEffect::new", None, "-", "value", "-", held', <<>>)
  /\ UNCHANGED <<surface, device, queue, buffers, sc_desc, swap_chain, size,
                 depth_texture, effect, last_installed, alive>>

\* BasicEffect::write_buffer(&self, gpu, buffer, bytes) on the installed effect
BasicEffect_write_buffer(buffer, bytes) ==
  /\ alive
  /\ effect # None
  /\ buffers' = [buffers EXCEPT
                   ![buffer] = queue_write_buffer(@, cast_slice(bytes))]
  /\ ret' = Call("BasicEffect::write_buffer", Some(bytes), "-", "unit", "-",
                 None, <<"write_buffer">>)
  /\ UNCHANGED <<surface, device, queue, sc_desc, swap_chain, size,
                 depth_texture, effect, held, next_id, last_installed, alive>>

\* BasicEffect::write_camera_buffer(&self, gpu, bytes) on the installed effect
BasicEffect_write_camera_buffer(bytes) ==
  /\ alive
  /\ effect # None
  /\ buffers' = [buffers EXCEPT ![effect.v.camera_obj.buffer] =
                   queue_write_buffer(@, cast_slice(bytes))]
  /\ ret' = Call("BasicEffect::write_camera_buffer", Some(bytes), "-", "unit",
                 "-", None, <<"write_buffer">>)
  /\ UNCHANGED <<surface, device, queue, sc_desc, swap_chain, size,
                 depth_texture, effect, held, next_id, last_installed, alive>>

Next ==
  \/ add_effect
  \/ get_effect
  \/ \E new_size \in PhysicalSize : resize(new_size)
  \/ \E b \in Buffers, p \in PodValues : write_buffer(b, p)
  \/ \E a \in AcquireOutcome : render(a)
  \/ new_effect
  \/ \E b \in Buffers, p \in PodValues : BasicEffect_write_buffer(b, p)
  \/ \E p \in PodValues : BasicEffect_write_camera_buffer(p)

Spec == Init /\ [][Next]_vars

TypeOK ==
  /\ size \in PhysicalSize
  /\ sc_desc.width \in Dims /\ sc_desc.height \in Dims
  /\ Len(queue) <= MaxSubmits
  /\ alive \in BOOLEAN

\* ------------------------------------------------------------- properties
Count(s, x) == Cardinality({i \in 1..Len(s) : s[i] = x})
Index(s, x) == CHOOSE i \in 1..Len(s) : s[i] = x
Draws(pass) == {i \in 1..Len(pass.commands) : pass.commands[i].cmd = "draw"}

\* C1: in every state between operations, whether the last operation
\* succeeded, failed or panicked, the depth texture's width and height equal
\* the width and height of the swap-chain descriptor.
C1_DepthMatchesSwapChain ==
  /\ depth_texture.width = sc_desc.width
  /\ depth_texture.height = sc_desc.height

\* a failed render after the context was resized to a non-square size
C1_Witness ==
  /\ ret.op = "render" /\ ret.result = "Err"
  /\ sc_desc.width = MaxDim /\ sc_desc.height = 1
  /\ depth_texture.width = MaxDim /\ depth_texture.height = 1
  /\ swap_chain.desc.width = MaxDim

\* C2: when resize(w,h) has just returned, the descriptor's width/height,
\* the stored size and the depth texture's dimensions all equal the (w,h) of
\* that call.
C2_ResizeTakesLatest ==
  ret.op = "resize" =>
    /\ sc_desc.width = ret.arg.v.width
    /\ sc_desc.height = ret.arg.v.height
    /\ size = ret.arg.v
    /\ depth_texture.width = ret.arg.v.width
    /\ depth_texture.height = ret.arg.v.height
    /\ swap_chain.desc.width = ret.arg.v.width
    /\ swap_chain.desc.height = ret.arg.v.height

\* a resize to 1 x MaxDim has returned on a context that has already rendered
C2_Witness ==
  /\ ret.op = "resize"
  /\ ret.arg.v = [width |-> 1, height |-> MaxDim]
  /\ size = [width |-> 1, height |-> MaxDim]
  /\ Len(queue) >= 1

\* C3: a render step whose acquisition succeeds with an effect installed
\* returns Ok, appends exactly one command buffer to the queue, that buffer
\* holds exactly one pass (colour cleared to (0.1,0.2,0.3,1.0), depth cleared
\* to 1.0) with exactly one draw of vertices 0..3 and instances 0..1, and the
\* single submit comes after the pass is closed.
C3_RenderOnePassOneDrawOneSubmit ==
  [][ (ret'.op = "render" /\ ret'.acquired = "Ok" /\ effect # None) =>
        /\ ret'.result = "Ok"
        /\ alive'
        /\ Len(queue') = Len(queue) + 1
        /\ SubSeq(queue', 1, Len(queue)) = queue
        /\ LET cb == queue'[Len(queue')] IN
             /\ Len(cb) = 1
             /\ cb[1].color_load = <<"Clear", <<1, 2, 3, 10>>>>
             /\ cb[1].depth_load = <<"Clear", 10>>
             /\ Cardinality(Draws(cb[1])) = 1
             /\ \A i \in Draws(cb[1]) :
                  /\ cb[1].commands[i].a = <<0, 3>>
                  /\ cb[1].commands[i].b = <<0, 1>>
        /\ Count(ret'.calls, "begin_render_pass") = 1
        /\ Count(ret'.calls, "draw") = 1
        /\ Count(ret'.calls, "end_render_pass") = 1
        /\ Count(ret'.calls, "submit") = 1
        /\ Index(ret'.calls, "begin_render_pass") < Index(ret'.calls, "draw")
        /\ Index(ret'.calls, "draw") < Index(ret'.calls, "end_render_pass")
        /\ Index(ret'.calls, "end_render_pass") < Index(ret'.calls, "submit")
    ]_vars

\* a render has returned Ok with an effect installed
C3_Witness ==
  /\ ret.op = "render" /\ ret.acquired = "Ok" /\ ret.result = "Ok"
  /\ effect # None
  /\ Len(queue) >= 1
  /\ Draws(queue[Len(queue)][1]) # {}

\* C4: a render step whose acquisition fails returns that SwapChainError after
\* the one get_current_frame call: no encoder, no pass, no draw, no submit, and
\* the swap chain is not rebuilt.
C4_AcquireFailureReturnsError ==
  [][ (ret'.op = "render" /\ ret'.acquired # "Ok") =>
        /\ ret'.result = "Err"
        /\ ret'.err = ret'.acquired
        /\ ret'.calls = <<"get_current_frame">>
        /\ queue' = queue
        /\ swap_chain' = swap_chain
        /\ sc_desc' = sc_desc
        /\ alive' = alive
    ]_vars

\* a render has reported a lost swap chain
C4_Witness ==
  /\ ret.op = "render" /\ ret.acquired = "Lost"
  /\ ret.result = "Err" /\ ret.err = "Lost"
  /\ effect # None

\* C5 as stated: with no effect installed every render step ends in a panic,
\* whatever get_current_frame answered, and submits nothing.
C5_Original ==
  [][ (ret'.op = "render" /\ effect = None) =>
        /\ ret'.result = "panic"
        /\ ~alive'
        /\ queue' = queue
    ]_vars

\* C5 amended: with no effect installed a render step submits nothing; it
\* panics when the frame was acquired, and returns the SwapChainError (without
\* panicking) when acquisition failed.
C5_NoEffectRender ==
  [][ (ret'.op = "render" /\ effect = None) =>
        /\ queue' = queue
        /\ Count(ret'.calls, "submit") = 0
        /\ IF ret'.acquired = "Ok"
             THEN ret'.result = "panic" /\ ~alive'
             ELSE ret'.result = "Err" /\ ret'.err = ret'.acquired /\ alive'
    ]_vars

\* a render without an effect has panicked after acquiring the frame
C5_Witness ==
  /\ ret.op = "render" /\ ret.acquired = "Ok" /\ ret.result = "panic"
  /\ effect = None
  /\ ~alive

\* C6: get_effect on a context on which add_effect was never called panics;
\* it returns no value.
C6_GetEffectBeforeInstallPanics ==
  [][ (ret'.op = "get_effect" /\ last_installed = None) =>
        /\ ret'.result = "panic"
        /\ ret'.value = None
        /\ ~alive'
    ]_vars

\* get_effect has panicked on a resized context that never had an effect
C6_Witness ==
  /\ ret.op = "get_effect" /\ ret.result = "panic"
  /\ last_installed = None
  /\ size = [width |-> MaxDim, height |-> 1]
  /\ ~alive

\* C7: the slot always holds exactly the argument of the most recent
\* add_effect call (nothing before the first), add_effect returns normally,
\* and get_effect on an installed effect returns that same effect.
C7_LatestEffectInstalled ==
  /\ effect = last_installed
  /\ (ret.op = "add_effect" => ret.result = "unit" /\ alive /\ effect = ret.arg)
  /\ (ret.op = "get_effect" /\ last_installed # None =>
        ret.result = "value" /\ ret.value = last_installed)

\* get_effect returns the second effect after the first one was installed,
\* rendered with, and replaced
C7_Witness ==
  /\ ret.op = "get_effect" /\ ret.result = "value"
  /\ Len(queue) >= 1
  /\ queue[1][1].commands[1].a = <<1>>
  /\ ret.value.v.render_pipeline.id = 2
  /\ effect.v.render_pipeline.id = 2

\* C8: a resize step leaves the effect slot, the device, the queue, the
\* surface, the GPU buffers and the descriptor's format, usage and present
\* mode unchanged.
C8_ResizeFrame ==
  [][ ret'.op = "resize" =>
        /\ effect' = effect
        /\ device' = device
        /\ queue' = queue
        /\ surface' = surface
        /\ buffers' = buffers
        /\ sc_desc'.format = sc_desc.format
        /\ sc_desc'.usage = sc_desc.usage
        /\ sc_desc'.present_mode = sc_desc.present_mode
        /\ swap_chain'.surface = swap_chain.surface
    ]_vars

\* a resize has returned on a context with an effect installed
C8_Witness ==
  /\ ret.op = "resize"
  /\ effect # None
  /\ size = [width |-> MaxDim, height |-> MaxDim]
  /\ Len(queue) >= 1

\* C9: a render step with an effect installed returns Ok or Err and leaves the
\* descriptor, swap chain, stored size, depth texture and effect unchanged.
C9_RenderKeepsState ==
  [][ (ret'.op = "render" /\ effect # None) =>
        /\ ret'.result \in {"Ok", "Err"}
        /\ alive'
        /\ sc_desc' = sc_desc
        /\ swap_chain' = swap_chain
        /\ size' = size
        /\ depth_texture' = depth_texture
        /\ effect' = effect
    ]_vars

\* two renders with the same effect have been submitted
C9_Witness ==
  /\ ret.op = "render" /\ ret.result = "Ok"
  /\ effect # None
  /\ Len(queue) >= 2
  /\ queue[1] = queue[2]

\* C10: the descriptor's format, usage and present mode are always the three
\* constants, and the colour-target format of every effect built from the
\* context equals the descriptor's format.
C10_FormatFixed ==
  /\ sc_desc.format = RENDERFORMAT
  /\ sc_desc.usage = SCUSAGE
  /\ sc_desc.present_mode = SCPRESENT
  /\ swap_chain.desc.format = RENDERFORMAT
  /\ (effect # None => effect.v.render_pipeline.format = sc_desc.format)
  /\ (held # None => held.v.render_pipeline.format = sc_desc.format)

\* a resize has returned after an effect was installed
C10_Witness ==
  /\ ret.op = "resize"
  /\ effect # None
  /\ effect.v.render_pipeline.format = RENDERFORMAT
  /\ sc_desc.width = 1 /\ sc_desc.height = MaxDim

====
